---- MODULE Spec2Model ----
(***************************************************************************)
(* DynamoRepository (src/repository/base_repository.py): a stateless       *)
(* facade over a PynamoDB model.  The table is the only shared state; each *)
(* repository call is a sequence of blocking storage round trips           *)
(* (Model.get, Model.save, Model.delete), each of them atomic.  Several    *)
(* clients call the repository concurrently, so the round trips of         *)
(* different calls interleave.                                             *)
(*                                                                         *)
(* The entity type is CustomerModel (src/models/customer_model.py): hash   *)
(* key customer_id, range key tenant_id, and non-null plain attributes, of *)
(* which the model carries name and status.  Storage reads are             *)
(* linearizable; the consistent_read flag a call passes to storage is kept *)
(* in the log of storage calls.                                            *)
(***************************************************************************)
EXTENDS Integers, Sequences, FiniteSets, TLC

VARIABLES table, pc, inst, keynames, existing, writers, calls, last, nops

vars == <<table, pc, inst, keynames, existing, writers, calls, last, nops>>

(***************************************************************************)
(* Bounds                                                                  *)
(***************************************************************************)
\* calls begun in one behaviour
MaxOps == 2

\* keys in one batch_get
MaxKeys == 2

\* two callers, whose calls may overlap
Clients == {1, 2}

(***************************************************************************)
(* The entity type                                                         *)
(***************************************************************************)
None == "None"

\* customer_id and tenant_id are both plain strings
HashVals == {"C1", "T0"}
RangeVals == {"C1", "T0"}
NameVals == {"User 1", "Updated Name"}
StatusVals == {"active", "inactive"}

hash_key_attr == "customer_id"
range_key_attr == "tenant_id"
KeyAttrs == {hash_key_attr, range_key_attr}
NonKeyAttrs == {"name", "status"}
Attrs == KeyAttrs \cup NonKeyAttrs

AttrVals(a) ==
    CASE a = "customer_id" -> HashVals
      [] a = "tenant_id" -> RangeVals
      [] a = "name" -> NameVals
      [] a = "status" -> StatusVals

AllVals == UNION {AttrVals(a) : a \in Attrs}

\* attribute_values of an instance whose set attributes are D
InstancesOver(D) == {f \in [D -> AllVals] : \A a \in D : f[a] \in AttrVals(a)}

\* an instance addresses an item: both key attributes are set, any subset
\* of the other attributes is
Instances == UNION {InstancesOver(KeyAttrs \cup D) : D \in SUBSET NonKeyAttrs}

\* a stored item carries every declared attribute (none is nullable)
Items == InstancesOver(Attrs)

NoEntity == [is_none |-> TRUE]

KeyOf(e) == <<e[hash_key_attr], e[range_key_attr]>>

(***************************************************************************)
(* Storage primitives, as the repository calls them                        *)
(***************************************************************************)
ItemsAt(t, hash_key, range_key) ==
    {i \in t : i[hash_key_attr] = hash_key /\ i[range_key_attr] = range_key}

\* Model.get(hash_key, range_key): the item, or DoesNotExist.  A lookup
\* that gives no range key does not match the table's key schema and is
\* rejected by storage (GetError).
ModelGet(t, hash_key, range_key) ==
    IF range_key = None
    THEN [outcome |-> "GetError", item |-> NoEntity]
    ELSE IF ItemsAt(t, hash_key, range_key) = {}
         THEN [outcome |-> "DoesNotExist", item |-> NoEntity]
         ELSE [outcome |-> "ok",
               item |-> CHOOSE i \in ItemsAt(t, hash_key, range_key) : TRUE]

\* instance.save() serializes every declared attribute and refuses a null
\* one (ValueError); otherwise it is an unconditional put of the whole item.
Serializable(e) == DOMAIN e = Attrs

\* fault variant: a put that keeps the item already stored at the key
PutItemIfAbsent(t, e) ==
    IF ItemsAt(t, e[hash_key_attr], e[range_key_attr]) = {} THEN t \cup {e}
    ELSE t

\* fault variant: a put that replaces the whole table by the item
PutItemAlone(t, e) == {e}

PutItem(t, e) ==
    (t \ ItemsAt(t, e[hash_key_attr], e[range_key_attr])) \cup {e}

\* Model(hash_key, range_key).delete(): unconditional delete_item
DeleteItem(t, hash_key, range_key) == t \ ItemsAt(t, hash_key, range_key)

(***************************************************************************)
(* Bookkeeping shared by the actions                                       *)
(***************************************************************************)
Call(api, cr) == [api |-> api, consistent_read |-> cr]

Stored(t, k) ==
    IF ItemsAt(t, k[1], k[2]) = {} THEN NoEntity
    ELSE CHOOSE i \in ItemsAt(t, k[1], k[2]) : TRUE

NoInst == [is_none |-> TRUE]
NoNames == <<None, None>>

\* lines 87-88 and 124-125: the key values are read off the instance, by
\* the attribute names the caller gives
KeyArg(model_instance, names) ==
    <<model_instance[names[1]],
      IF names[2] # None THEN model_instance[names[2]] ELSE None>>

\* no call returned in the last step
NoLast == [client |-> 0]

\* what a call was given: the attributes its instance carries and the key
\* the instance has; nothing of the kind for a call by key
Given(model_instance) ==
    [attrs |-> DOMAIN model_instance, key |-> KeyOf(model_instance)]
NoGiven == [attrs |-> {}, key |-> NoNames]

\* a write at key k by the call op of client c, which was given arg, is
\* seen by every call in flight on k
NoteWrite(c, op, arg, k) ==
    writers' = [d \in Clients |->
                  IF d = c THEN {}
                  ELSE IF pc[d] # "idle" /\ KeyArg(inst[d], keynames[d]) = k
                       THEN writers[d] \cup
                            {[client |-> c, op |-> op, attrs |-> arg.attrs]}
                       ELSE writers[d]]

Begin(c) == pc[c] = "idle" /\ nops < MaxOps /\ nops' = nops + 1

\* The call op of client c returns value (outcome "ok") or raises the
\* exception outcome names.  last describes the call that returned in the
\* last step: arg is what it was given, key the key of its last storage call,
\* log the storage calls it issued, prior the item stored at key just before
\* the last of them, raced the writes at its key while it was in flight.
Return(c, op, arg, key, outcome, value, prior, log, raced) ==
    /\ pc' = [pc EXCEPT ![c] = "idle"]
    /\ inst' = [inst EXCEPT ![c] = NoInst]
    /\ keynames' = [keynames EXCEPT ![c] = NoNames]
    /\ existing' = [existing EXCEPT ![c] = NoEntity]
    /\ calls' = [calls EXCEPT ![c] = <<>>]
    /\ last' = [client |-> c, op |-> op, arg |-> arg, key |-> key,
                outcome |-> outcome,
                value |-> value, prior |-> prior, calls |-> log,
                raced |-> raced]

\* the call of client c goes on to its next storage round trip
Goto(c, label, log) ==
    /\ pc' = [pc EXCEPT ![c] = label]
    /\ calls' = [calls EXCEPT ![c] = log]
    /\ last' = NoLast

\* the keys the concurrent callers address, and the tables over them
SpecKeys == {<<"C1", "T0">>, <<"T0", "C1">>}
SpecInstances == {e \in Instances : KeyOf(e) \in SpecKeys}
SpecItems == {i \in Items : KeyOf(i) \in SpecKeys}
Tables(I) == {t \in SUBSET I : \A i, j \in t : KeyOf(i) = KeyOf(j) => i = j}

\* no call is in flight, n calls have begun, and the table is one of T
Start(T, n) ==
    /\ table \in T
    /\ pc = [c \in Clients |-> "idle"]
    /\ inst = [c \in Clients |-> NoInst]
    /\ keynames = [c \in Clients |-> NoNames]
    /\ existing = [c \in Clients |-> NoEntity]
    /\ writers = [c \in Clients |-> {}]
    /\ calls = [c \in Clients |-> <<>>]
    /\ last = NoLast
    /\ nops = n

(***************************************************************************)
(* get / exists: lines 27-55                                               *)
(***************************************************************************)
Falsy(v) == v = None \/ v = ""

\* fault variant: a get that takes any hash key to storage
get_unguarded(t, hash_key, range_key) ==
    LET g == ModelGet(t, hash_key, IF Falsy(range_key) THEN None ELSE range_key)
    IN [outcome |-> IF g.outcome = "DoesNotExist" THEN "ok" ELSE g.outcome,
        value |-> g.item,
        calls |-> <<Call("get_item", FALSE)>>]

\* what get returns or raises, and the storage calls it issues
get(t, hash_key, range_key) ==
    IF Falsy(hash_key)
    THEN [outcome |-> "ok", value |-> NoEntity, calls |-> <<>>]
    ELSE LET g == ModelGet(t, hash_key,
                           IF Falsy(range_key) THEN None ELSE range_key)
         IN [outcome |-> IF g.outcome = "DoesNotExist" THEN "ok" ELSE g.outcome,
             value |-> g.item,
             calls |-> <<Call("get_item", FALSE)>>]

\* fault variant: an exists that asks storage itself and lets its not-found
\* through
exists_by_storage(t, hash_key, range_key) ==
    LET g == ModelGet(t, hash_key, IF Falsy(range_key) THEN None ELSE range_key)
    IN [outcome |-> g.outcome,
        value |-> g.outcome = "ok",
        calls |-> <<Call("get_item", FALSE)>>]

exists(t, hash_key, range_key) ==
    LET g == get(t, hash_key, range_key)
    IN [outcome |-> g.outcome,
        value |-> IF g.outcome = "ok" THEN g.value # NoEntity ELSE FALSE,
        calls |-> g.calls]

Get(c, hash_key, range_key) ==
    /\ Begin(c)
    /\ LET g == get(table, hash_key, range_key)
       IN Return(c, "get", NoGiven, <<hash_key, range_key>>, g.outcome, g.value,
                 NoEntity, g.calls, {})
    /\ UNCHANGED <<table, writers>>

Exists(c, hash_key, range_key) ==
    /\ Begin(c)
    /\ LET g == exists(table, hash_key, range_key)
       IN Return(c, "exists", NoGiven, <<hash_key, range_key>>, g.outcome, g.value,
                 NoEntity, g.calls, {})
    /\ UNCHANGED <<table, writers>>

(***************************************************************************)
(* insert: lines 57-66                                                     *)
(***************************************************************************)
\* model_instance.save(); return model_instance
insert(t, model_instance) ==
    IF Serializable(model_instance)
    THEN [outcome |-> "ok", value |-> model_instance,
          table |-> PutItem(t, model_instance)]
    ELSE [outcome |-> "ValueError", value |-> NoEntity, table |-> t]

\* the save of insert, by client c on behalf of operation op
InsertSave(c, model_instance, op, log, raced) ==
    LET r == insert(table, model_instance)
    IN /\ table' = r.table
       /\ Return(c, op, Given(model_instance), KeyOf(model_instance),
                 r.outcome, r.value,
                 Stored(table, KeyOf(model_instance)),
                 IF r.outcome = "ok" THEN Append(log, Call("put_item", FALSE))
                 ELSE log,
                 raced)
       /\ IF r.outcome = "ok"
          THEN NoteWrite(c, op, Given(model_instance), KeyOf(model_instance))
          ELSE writers' = [writers EXCEPT ![c] = {}]

Insert(c, model_instance) ==
    /\ Begin(c)
    /\ InsertSave(c, model_instance, "insert", <<>>, {})

(***************************************************************************)
(* delete: lines 136-148                                                   *)
(***************************************************************************)
\* fault variant: a delete that insists on the item being there
deleteStrict(t, hash_key, range_key) ==
    IF range_key = None THEN [outcome |-> "DeleteError", table |-> t]
    ELSE IF ItemsAt(t, hash_key, range_key) = {}
         THEN [outcome |-> "DoesNotExist", table |-> t]
         ELSE [outcome |-> "ok", table |-> DeleteItem(t, hash_key, range_key)]

\* a delete that gives no range key does not match the table's key schema
\* and is rejected by storage (DeleteError)
delete(t, hash_key, range_key) ==
    IF range_key # None
    THEN [outcome |-> "ok", table |-> DeleteItem(t, hash_key, range_key)]
    ELSE [outcome |-> "DeleteError", table |-> t]

Delete(c, hash_key, range_key) ==
    /\ Begin(c)
    /\ LET r == delete(table, hash_key, range_key)
       IN /\ table' = r.table
          /\ Return(c, "delete", NoGiven, <<hash_key, range_key>>, r.outcome, NoEntity,
                    Stored(table, <<hash_key, range_key>>),
                    <<Call("delete_item", FALSE)>>, {})
          /\ IF r.outcome = "ok"
             THEN NoteWrite(c, "delete", NoGiven, <<hash_key, range_key>>)
             ELSE UNCHANGED writers

(***************************************************************************)
(* update: lines 68-103                                                    *)
(***************************************************************************)
\* the key attribute names of the entity type; a caller may also leave the
\* range key name out, or give the two names the wrong way round
RightNames == <<hash_key_attr, range_key_attr>>
KeyNameArgs == {RightNames, <<hash_key_attr, None>>,
                <<range_key_attr, hash_key_attr>>}

\* fault variant: a merge that sets nothing on the fetched item
KeepFetched(fetched, model_instance) == fetched

\* fault variant: a merge that does not spare the key attributes
MergeAll(fetched, model_instance) ==
    [a \in DOMAIN fetched |->
        IF a \in DOMAIN model_instance THEN model_instance[a] ELSE fetched[a]]

\* lines 96-100: every attribute of the instance that is not a key
\* attribute is set on the fetched item
Merge(fetched, model_instance) ==
    [a \in DOMAIN fetched |->
        IF a \in DOMAIN model_instance /\ a \notin KeyAttrs
        THEN model_instance[a]
        ELSE fetched[a]]

\* lines 90-94: fetch the stored item.  op is the operation the caller
\* invoked; a DoesNotExist raised under upsert is caught at line 133.
UpdateFetch(c, model_instance, names, consistent_read, op, log, raced) ==
    LET k == KeyArg(model_instance, names)
        g == ModelGet(table, k[1], k[2])
        log2 == Append(log, Call("get_item", consistent_read))
    IN /\ UNCHANGED table
       /\ CASE g.outcome = "ok" ->
                 /\ Goto(c, IF op = "upsert" THEN "upsert_update_save"
                            ELSE "update_save", log2)
                 /\ inst' = [inst EXCEPT ![c] = model_instance]
                 /\ keynames' = [keynames EXCEPT ![c] = names]
                 /\ existing' = [existing EXCEPT ![c] = g.item]
                 /\ writers' = [writers EXCEPT ![c] = raced]
            [] g.outcome = "DoesNotExist" /\ op = "upsert" ->
                 /\ Goto(c, "upsert_insert", log2)
                 /\ inst' = [inst EXCEPT ![c] = model_instance]
                 /\ keynames' = [keynames EXCEPT ![c] = names]
                 /\ writers' = [writers EXCEPT ![c] = raced]
                 /\ UNCHANGED existing
            [] OTHER ->
                 /\ Return(c, op, Given(model_instance), k, g.outcome, NoEntity,
                           NoEntity, log2, raced)
                 /\ writers' = [writers EXCEPT ![c] = {}]

\* fault variant: a write-back conditional on the item being as it was read
ConditionalSave(c, op) ==
    LET merged == Merge(existing[c], inst[c])
        k == KeyOf(merged)
    IN IF Stored(table, k) = existing[c]
       THEN /\ table' = PutItem(table, merged)
            /\ NoteWrite(c, op, Given(inst[c]), k)
            /\ Return(c, op, Given(inst[c]), k, "ok", merged, Stored(table, k),
                      Append(calls[c], Call("put_item", FALSE)), writers[c])
            /\ UNCHANGED nops
       ELSE /\ Return(c, op, Given(inst[c]), k, "PutError", NoEntity,
                      Stored(table, k), calls[c], writers[c])
            /\ writers' = [writers EXCEPT ![c] = {}]
            /\ UNCHANGED <<table, nops>>

\* fault variant: a write-back of the instance's attributes onto the item
\* stored now, not onto the item read
AttributeSave(c, op) ==
    LET k == KeyOf(existing[c])
        now == Stored(table, k)
        merged == Merge(IF now = NoEntity THEN existing[c] ELSE now, inst[c])
    IN /\ table' = PutItem(table, merged)
       /\ NoteWrite(c, op, Given(inst[c]), k)
       /\ Return(c, op, Given(inst[c]), k, "ok", merged, now,
                 Append(calls[c], Call("put_item", FALSE)), writers[c])
       /\ UNCHANGED nops

\* lines 96-103: merge, existing.save(), return existing
UpdateSave(c, op) ==
    LET merged == Merge(existing[c], inst[c])
    IN /\ table' = PutItem(table, merged)
       /\ NoteWrite(c, op, Given(inst[c]), KeyOf(merged))
       /\ Return(c, op, Given(inst[c]), KeyOf(merged), "ok", merged,
                 Stored(table, KeyOf(merged)),
                 Append(calls[c], Call("put_item", FALSE)), writers[c])
       /\ UNCHANGED nops

\* fault variant: an update that inserts the instance when nothing is stored
UpdateOrInsert(c, model_instance, names, consistent_read) ==
    /\ Begin(c)
    /\ LET k == KeyArg(model_instance, names)
       IN IF ModelGet(table, k[1], k[2]).outcome = "DoesNotExist"
          THEN InsertSave(c, model_instance, "update",
                          <<Call("get_item", consistent_read)>>, {})
          ELSE UpdateFetch(c, model_instance, names, consistent_read,
                           "update", <<>>, {})

UpdateGet(c, model_instance, names, consistent_read) ==
    /\ Begin(c)
    /\ UpdateFetch(c, model_instance, names, consistent_read, "update", <<>>, {})

UpdateWrite(c) ==
    /\ pc[c] = "update_save"
    /\ UpdateSave(c, "update")

(***************************************************************************)
(* upsert: lines 105-134                                                   *)
(***************************************************************************)
\* fault variant: an upsert that inserts whatever the lookup finds
UpsertAlwaysInsert(c, model_instance, names, consistent_read) ==
    /\ Begin(c)
    /\ Goto(c, "upsert_insert", <<Call("get_item", consistent_read)>>)
    /\ inst' = [inst EXCEPT ![c] = model_instance]
    /\ keynames' = [keynames EXCEPT ![c] = names]
    /\ writers' = [writers EXCEPT ![c] = {}]
    /\ UNCHANGED <<table, existing>>

\* lines 123-131: the existence lookup
UpsertGet(c, model_instance, names, consistent_read) ==
    /\ Begin(c)
    /\ LET k == KeyArg(model_instance, names)
           g == ModelGet(table, k[1], k[2])
           log == <<Call("get_item", consistent_read)>>
       IN CASE g.outcome = "ok" ->
                 /\ Goto(c, "upsert_update_get", log)
                 /\ inst' = [inst EXCEPT ![c] = model_instance]
                 /\ keynames' = [keynames EXCEPT ![c] = names]
                 /\ UNCHANGED existing
            [] g.outcome = "DoesNotExist" ->
                 /\ Goto(c, "upsert_insert", log)
                 /\ inst' = [inst EXCEPT ![c] = model_instance]
                 /\ keynames' = [keynames EXCEPT ![c] = names]
                 /\ UNCHANGED existing
            [] OTHER ->
                 Return(c, "upsert", Given(model_instance), k, g.outcome,
                        NoEntity, NoEntity, log, {})
    /\ writers' = [writers EXCEPT ![c] = {}]
    /\ UNCHANGED table

\* fault variant: the delegated update outside the try block, so that its
\* DoesNotExist reaches the caller of upsert
UpsertUpdateGetUncaught(c) ==
    /\ pc[c] = "upsert_update_get"
    /\ LET k == KeyArg(inst[c], keynames[c])
       IN IF ModelGet(table, k[1], k[2]).outcome = "DoesNotExist"
          THEN /\ Return(c, "upsert", Given(inst[c]), k, "DoesNotExist",
                         NoEntity, NoEntity,
                         Append(calls[c], Call("get_item", FALSE)), writers[c])
               /\ writers' = [writers EXCEPT ![c] = {}]
               /\ UNCHANGED table
          ELSE UpdateFetch(c, inst[c], keynames[c], FALSE, "upsert", calls[c],
                           writers[c])
    /\ UNCHANGED nops

\* line 132: update(model_instance, hash_key_name, range_key_name), inside
\* the try block; consistent_read is not passed on, so update reads with its
\* default
UpsertUpdateGet(c) ==
    /\ pc[c] = "upsert_update_get"
    /\ UpdateFetch(c, inst[c], keynames[c], FALSE, "upsert", calls[c],
                   writers[c])
    /\ UNCHANGED nops

UpsertUpdateWrite(c) ==
    /\ pc[c] = "upsert_update_save"
    /\ UpdateSave(c, "upsert")

\* lines 133-134: except DoesNotExist: insert(model_instance)
UpsertInsert(c) ==
    /\ pc[c] = "upsert_insert"
    /\ InsertSave(c, inst[c], "upsert", calls[c], writers[c])
    /\ UNCHANGED nops

(***************************************************************************)
(* Conditions, and the storage's query and scan                            *)
(***************************************************************************)
\* BeginsWith(Path(p), Value(v)), Path(p) == v, and their conjunction
BeginsWith(p, v) == [op |-> "begins_with", path |-> p, val |-> v]
Equals(p, v) == [op |-> "eq", path |-> p, val |-> v]
And(l, r) == [op |-> "and", left |-> l, right |-> r]
\* the condition argument that is not given, and the limit that is not given
NoCond == [op |-> "none"]
NoLimit == 0

StartsWith(str, prefix) == <<str, prefix>> \in {<<"T0", "T">>, <<"C1", "C">>}

RECURSIVE Holds(_, _)
Holds(cond, item) ==
    CASE cond.op = "begins_with" -> StartsWith(item[cond.path], cond.val)
      [] cond.op = "eq" -> item[cond.path] = cond.val
      [] cond.op = "and" -> Holds(cond.left, item) /\ Holds(cond.right, item)

Matches(cond, item) == cond = NoCond \/ Holds(cond, item)

\* the secondary indexes of the entity type, and the hash key of each
Indexes == {"status-index"}
IndexHashKey(index_name) == "status"

\* the order of the strings that are key values
Rank(v) == CASE v = "C1" -> 1 [] v = "T0" -> 2

\* the items of I by ascending (hash key, range key)
RECURSIVE Sorted(_)
Sorted(I) ==
    IF I = {} THEN <<>>
    ELSE LET m == CHOOSE i \in I : \A j \in I :
                     \/ Rank(i[hash_key_attr]) < Rank(j[hash_key_attr])
                     \/ /\ i[hash_key_attr] = j[hash_key_attr]
                        /\ Rank(i[range_key_attr]) <= Rank(j[range_key_attr])
         IN <<m>> \o Sorted(I \ {m})

Reverse(q) == [n \in 1..Len(q) |-> q[Len(q) + 1 - n]]

Cap(q, limit) ==
    IF limit = NoLimit \/ Len(q) <= limit THEN q ELSE SubSeq(q, 1, limit)

\* Model.query: the items of one partition of the table or of an index, in
\* the order of the range key, that satisfy both conditions, limit of them
\* at most
ModelQuery(t, call) ==
    LET hk == IF call.index_name = None THEN hash_key_attr
              ELSE IndexHashKey(call.index_name)
        hit == {i \in t : /\ i[hk] = call.hash_key
                           /\ Matches(call.range_key_condition, i)
                           /\ Matches(call.filter_condition, i)}
        q == Sorted(hit)
    IN Cap(IF call.scan_index_forward THEN q ELSE Reverse(q), call.limit)

\* Model.scan: the items of the table or of an index that satisfy the
\* filter, limit of them at most
ModelScan(t, call) ==
    Cap(Sorted({i \in t : Matches(call.filter_condition, i)}), call.limit)

\* what the storage answers to a query or a scan; an index the entity type
\* does not declare is a KeyError
Storage(t, call) ==
    IF call.index_name # None /\ call.index_name \notin Indexes
    THEN [outcome |-> "KeyError", value |-> <<>>]
    ELSE [outcome |-> "ok",
          value |-> IF call.api = "query" THEN ModelQuery(t, call)
                    ELSE ModelScan(t, call)]

(***************************************************************************)
(* query: lines 150-197, query_index: lines 199-250                        *)
(***************************************************************************)
\* The arguments of a query.  A Condition refuses to be tested for truth
\* (its __bool__ raises TypeError), which is what "if filter_condition"
\* does to a filter that is given.
QueryArgs(hash_key_value, range_key_condition, filter_condition, limit, scan_forward, use_scan_if_missing_hash, consistent_read) ==
    [hash_key_value |-> hash_key_value,
     range_key_condition |-> range_key_condition,
     filter_condition |-> filter_condition,
     limit |-> limit,
     scan_forward |-> scan_forward,
     use_scan_if_missing_hash |-> use_scan_if_missing_hash,
     consistent_read |-> consistent_read]

\* fault variant: a query that scans whenever the flag and a range
\* condition are given, hash key or not
query_flag_first(a) ==
    IF a.use_scan_if_missing_hash /\ a.range_key_condition # NoCond
    THEN [outcome |-> "ok",
          call |-> [api |-> "scan", index_name |-> None,
                    filter_condition |-> a.range_key_condition,
                    limit |-> a.limit,
                    consistent_read |-> a.consistent_read]]
    ELSE IF a.hash_key_value # None
    THEN [outcome |-> "ok",
          call |-> [api |-> "query", index_name |-> None,
                    hash_key |-> a.hash_key_value,
                    range_key_condition |-> a.range_key_condition,
                    filter_condition |-> a.filter_condition,
                    limit |-> a.limit,
                    scan_index_forward |-> a.scan_forward,
                    consistent_read |-> a.consistent_read]]
    ELSE [outcome |-> "ValueError"]

\* the storage call query decides on, or the exception it raises
query(a) ==
    IF a.hash_key_value # None
    THEN [outcome |-> "ok",
          call |-> [api |-> "query", index_name |-> None,
                    hash_key |-> a.hash_key_value,
                    range_key_condition |-> a.range_key_condition,
                    filter_condition |-> a.filter_condition,
                    limit |-> a.limit,
                    scan_index_forward |-> a.scan_forward,
                    consistent_read |-> a.consistent_read]]
    ELSE IF a.use_scan_if_missing_hash /\ a.range_key_condition # NoCond
    THEN IF a.filter_condition # NoCond
         THEN [outcome |-> "TypeError"]
         ELSE [outcome |-> "ok",
               call |-> [api |-> "scan", index_name |-> None,
                         filter_condition |-> a.range_key_condition,
                         limit |-> a.limit,
                         consistent_read |-> a.consistent_read]]
    ELSE [outcome |-> "ValueError"]

\* fault variant: a query_index that leaves the index name out of its
\* storage call
query_index_on_table(index_name, a) == query(a)

\* fault variant: a query_index that takes a filter alone as a reason to scan
query_index_lenient(index_name, a) ==
    IF a.hash_key_value = None /\ a.use_scan_if_missing_hash
       /\ a.filter_condition # NoCond
    THEN [outcome |-> "ok",
          call |-> [api |-> "scan", index_name |-> index_name,
                    filter_condition |-> a.filter_condition,
                    limit |-> a.limit,
                    consistent_read |-> a.consistent_read]]
    ELSE query(a)

query_index(index_name, a) ==
    IF a.hash_key_value # None
    THEN [outcome |-> "ok",
          call |-> [api |-> "query", index_name |-> index_name,
                    hash_key |-> a.hash_key_value,
                    range_key_condition |-> a.range_key_condition,
                    filter_condition |-> a.filter_condition,
                    limit |-> a.limit,
                    scan_index_forward |-> a.scan_forward,
                    consistent_read |-> a.consistent_read]]
    ELSE IF a.use_scan_if_missing_hash /\ a.range_key_condition # NoCond
    THEN IF a.filter_condition # NoCond
         THEN [outcome |-> "TypeError"]
         ELSE [outcome |-> "ok",
               call |-> [api |-> "scan", index_name |-> index_name,
                         filter_condition |-> a.range_key_condition,
                         limit |-> a.limit,
                         consistent_read |-> a.consistent_read]]
    ELSE [outcome |-> "ValueError"]

\* the caller consumes the iterator: the storage call is issued and answered
Fetch(c, op, arg, d) ==
    IF d.outcome # "ok"
    THEN Return(c, op, arg, NoNames, d.outcome, <<>>, NoEntity, <<>>, {})
    ELSE LET r == Storage(table, d.call)
         IN Return(c, op, arg, NoNames, r.outcome, r.value, NoEntity,
                   <<d.call>>, {})

Query(c, a) ==
    /\ Begin(c)
    /\ Fetch(c, "query", a, query(a))
    /\ UNCHANGED <<table, writers>>

QueryIndex(c, index_name, a) ==
    /\ Begin(c)
    /\ Fetch(c, "query_index", ("index_name" :> index_name) @@ a,
             query_index(index_name, a))
    /\ UNCHANGED <<table, writers>>

(***************************************************************************)
(* flexible_query: lines 323-381                                           *)
(***************************************************************************)
\* fault variant: a flexible_query whose scan ignores the index it was given
flexible_query_scan_table(index_name, a) ==
    IF a.hash_key_value # None /\ ~Falsy(index_name)
    THEN query_index(index_name, a)
    ELSE query(a)

\* index_name is tested for truth (lines 356 and 375): None and the empty
\* string both mean the table.  The query passes kwargs and, with an index,
\* index_name; the scan passes scan_kwargs, to which an index is added.
flexible_query(index_name, a) ==
    IF a.hash_key_value # None
    THEN [outcome |-> "ok",
          call |-> [api |-> "query",
                    index_name |-> IF Falsy(index_name) THEN None
                                   ELSE index_name,
                    hash_key |-> a.hash_key_value,
                    range_key_condition |-> a.range_key_condition,
                    filter_condition |-> a.filter_condition,
                    limit |-> a.limit,
                    scan_index_forward |-> a.scan_forward,
                    consistent_read |-> a.consistent_read]]
    ELSE IF a.use_scan_if_missing_hash /\ a.range_key_condition # NoCond
    THEN IF a.filter_condition # NoCond
         THEN [outcome |-> "TypeError"]
         ELSE [outcome |-> "ok",
               call |-> [api |-> "scan",
                         index_name |-> IF Falsy(index_name) THEN None
                                        ELSE index_name,
                         filter_condition |-> a.range_key_condition,
                         limit |-> a.limit,
                         consistent_read |-> a.consistent_read]]
    ELSE [outcome |-> "ValueError"]

FlexibleQuery(c, index_name, a) ==
    /\ Begin(c)
    /\ Fetch(c, "flexible_query", ("index_name" :> index_name) @@ a,
             flexible_query(index_name, a))
    /\ UNCHANGED <<table, writers>>

(***************************************************************************)
(* scan: lines 252-268                                                     *)
(***************************************************************************)
ScanArgs(filter_condition, limit, consistent_read) ==
    [filter_condition |-> filter_condition, limit |-> limit,
     consistent_read |-> consistent_read]

\* model.scan(filter_condition=..., limit=..., consistent_read=...)
scan(a) ==
    [outcome |-> "ok",
     call |-> [api |-> "scan", index_name |-> None,
               filter_condition |-> a.filter_condition,
               limit |-> a.limit,
               consistent_read |-> a.consistent_read]]

Scan(c, a) ==
    /\ Begin(c)
    /\ Fetch(c, "scan", a, scan(a))
    /\ UNCHANGED <<table, writers>>

(***************************************************************************)
(* scan_paginated: lines 270-293                                           *)
(***************************************************************************)
\* The ResultIterator of Model.scan(limit=..., page_size=...), consumed to
\* the end.  Each fetch has storage evaluate the next page_size items and
\* give those that satisfy the filter, with a continuation key when
\* page_size items were evaluated; the iterator yields the items of the
\* page, fetches again when the page is used up and there is a
\* continuation key, and stops once it has yielded limit items.  got is
\* what was yielded and the number of items of each fetch so far.
RECURSIVE Paginate(_, _, _, _, _)
Paginate(rest, filter_condition, page_size, limit, got) ==
    IF limit # NoLimit /\ Len(got.items) >= limit
    THEN got
    ELSE LET n == IF Len(rest) < page_size THEN Len(rest) ELSE page_size
             page == SelectSeq(SubSeq(rest, 1, n),
                               LAMBDA i : Matches(filter_condition, i))
             room == IF limit = NoLimit THEN Len(page)
                     ELSE limit - Len(got.items)
             got2 == [items |-> got.items \o Cap(page, room),
                      fetches |-> Append(got.fetches, Len(page))]
         IN IF n = page_size
            THEN Paginate(SubSeq(rest, n + 1, Len(rest)), filter_condition,
                          page_size, limit, got2)
            ELSE got2

ModelScanPaginated(t, call) ==
    Paginate(Sorted(t), call.filter_condition, call.page_size, call.limit,
             [items |-> <<>>, fetches |-> <<>>])

ScanPaginatedArgs(filter_condition, page_size, limit, consistent_read) ==
    [filter_condition |-> filter_condition, page_size |-> page_size,
     limit |-> limit, consistent_read |-> consistent_read]

\* fault variant: a scan_paginated that does not pass the limit on
scan_paginated_unlimited(a) ==
    [outcome |-> "ok",
     call |-> [api |-> "scan", index_name |-> None,
               filter_condition |-> a.filter_condition,
               limit |-> NoLimit,
               page_size |-> a.page_size,
               consistent_read |-> a.consistent_read]]

\* model.scan(filter_condition=..., limit=..., page_size=..., consistent_read=...)
scan_paginated(a) ==
    [outcome |-> "ok",
     call |-> [api |-> "scan", index_name |-> None,
               filter_condition |-> a.filter_condition,
               limit |-> a.limit,
               page_size |-> a.page_size,
               consistent_read |-> a.consistent_read]]

\* the caller consumes the iterator to the end; the log holds the scan, and
\* the number of items of each of its page fetches
ScanPaginated(c, a) ==
    /\ Begin(c)
    /\ LET d == scan_paginated(a)
           r == ModelScanPaginated(table, d.call)
       IN Return(c, "scan_paginated", a, NoNames, "ok", r.items, NoEntity,
                 <<[call |-> d.call, fetches |-> r.fetches]>>, {})
    /\ UNCHANGED <<table, writers>>

(***************************************************************************)
(* batch_get: lines 295-309                                                *)
(***************************************************************************)
\* Model.batch_get(keys): one BatchGetItem for the keys (none when there is
\* no key), which gives the items stored at them and leaves out the keys
\* at which nothing is stored; storage rejects a request that names a key
\* twice (GetError)
ModelBatchGet(t, keys) ==
    IF \E m, n \in 1..Len(keys) : m # n /\ keys[m] = keys[n]
    THEN [outcome |-> "GetError", value |-> <<>>]
    ELSE [outcome |-> "ok",
          value |-> Sorted({i \in t : \E n \in 1..Len(keys) : KeyOf(i) = keys[n]})]

\* return model.batch_get(keys, consistent_read=consistent_read)
batch_get(t, keys, consistent_read) ==
    LET r == ModelBatchGet(t, keys)
    IN [outcome |-> r.outcome,
        value |-> r.value,
        calls |-> IF keys = <<>> THEN <<>>
                  ELSE <<[api |-> "batch_get_item", keys |-> keys,
                          consistent_read |-> consistent_read]>>]

BatchGet(c, keys, consistent_read) ==
    /\ Begin(c)
    /\ LET r == batch_get(table, keys, consistent_read)
       IN Return(c, "batch_get",
                 [keys |-> keys, consistent_read |-> consistent_read],
                 NoNames, r.outcome, r.value, NoEntity, r.calls, {})
    /\ UNCHANGED <<table, writers>>

(***************************************************************************)
(* build_actions                                                           *)
(***************************************************************************)
\* pynamodb's Path of an attribute name: the list of its segments
Path(attr) == <<attr>>

SetAction(path, value) == [action |-> "SET", path |-> path, value |-> value]

\* a fault: the actions in reverse mapping order
build_actions_reversed(updates) ==
    [i \in DOMAIN updates |->
        LET u == updates[Len(updates) + 1 - i]
        IN SetAction(Path(u[1]), u[2])]

\* updates is a dict, which keeps insertion order: the sequence of its
\* (attr, value) entries
build_actions(updates) ==
    [i \in DOMAIN updates |-> SetAction(Path(updates[i][1]), updates[i][2])]

BuildActions(c, updates) ==
    /\ Begin(c)
    /\ Return(c, "build_actions", updates, NoNames, "ok",
              build_actions(updates), NoEntity, <<>>, {})
    /\ UNCHANGED <<table, writers>>

(***************************************************************************)
(* Spec: the two clients call the writing operations concurrently, each    *)
(* call with the key attribute names of the entity type and the default    *)
(* consistent_read.                                                        *)
(***************************************************************************)
\* the callers contend on one key, with any instance at it; at the other
\* key they write one item
HotKey == <<"C1", "T0">>
Bystander == [customer_id |-> "T0", tenant_id |-> "C1",
              name |-> "User 1", status |-> "active"]
ConcInstances == {e \in SpecInstances : KeyOf(e) = HotKey} \cup {Bystander}
ConcItems == ConcInstances \cap Items

Init == Start(Tables(ConcItems), 0)

Next ==
    \/ \E c \in Clients, e \in ConcInstances : Insert(c, e)
    \/ \E c \in Clients, k \in SpecKeys : Delete(c, k[1], k[2])
    \/ \E c \in Clients, e \in ConcInstances :
          UpdateGet(c, e, RightNames, FALSE)
    \/ \E c \in Clients : UpdateWrite(c)
    \/ \E c \in Clients, e \in ConcInstances :
          UpsertGet(c, e, RightNames, FALSE)
    \/ \E c \in Clients : UpsertUpdateGet(c)
    \/ \E c \in Clients : UpsertUpdateWrite(c)
    \/ \E c \in Clients : UpsertInsert(c)

Spec == Init /\ [][Next]_vars

(***************************************************************************)
(* SpecSeq: one caller, one call at a time, with every argument the        *)
(* signatures allow.                                                       *)
(***************************************************************************)
Caller == CHOOSE c \in Clients : TRUE

HashArgs == {k[1] : k \in SpecKeys} \cup {None, ""}
RangeArgs == {k[2] : k \in SpecKeys} \cup {None}

NextSeq ==
    \/ \E h \in HashArgs, r \in RangeArgs : Get(Caller, h, r)
    \/ \E h \in HashArgs, r \in RangeArgs : Exists(Caller, h, r)
    \/ \E e \in SpecInstances : Insert(Caller, e)
    \/ \E k \in SpecKeys, r \in RangeArgs : Delete(Caller, k[1], r)
    \/ \E e \in SpecInstances, names \in KeyNameArgs, cr \in BOOLEAN :
          UpdateGet(Caller, e, names, cr)
    \/ UpdateWrite(Caller)
    \/ \E e \in SpecInstances, names \in KeyNameArgs, cr \in BOOLEAN :
          UpsertGet(Caller, e, names, cr)
    \/ UpsertUpdateGet(Caller)
    \/ UpsertUpdateWrite(Caller)
    \/ UpsertInsert(Caller)

InitSeq == Start(Tables(SpecItems), 0)

SpecSeq == InitSeq /\ [][NextSeq]_vars

(***************************************************************************)
(* SpecRead: one reading call, with any arguments, against any table.      *)
(***************************************************************************)
RangeConds == {NoCond, BeginsWith(range_key_attr, "T"), Equals(range_key_attr, "C1")}
FilterConds == {NoCond, Equals("status", "active")}
Limits == {NoLimit, 1}
QueryHashArgs == {None, "C1", "active"}
IndexArgs == {"status-index", "invalid_index"}
\* index_name of flexible_query: also left out, or empty
FlexIndexArgs == IndexArgs \cup {None, ""}

ScanFilters ==
    FilterConds \cup RangeConds
        \cup {And(rc, fc) : rc \in RangeConds \ {NoCond}, fc \in FilterConds \ {NoCond}}

AllScanArgs ==
    {ScanArgs(f, lim, cr) : f \in ScanFilters, lim \in Limits, cr \in BOOLEAN}

PageSizes == {1, 2}
PageLimits == {NoLimit, 1, 3}
AllScanPaginatedArgs ==
    {ScanPaginatedArgs(f, ps, lim, cr) :
        f \in ScanFilters, ps \in PageSizes, lim \in PageLimits, cr \in BOOLEAN}

ReadKeys == HashVals \X RangeVals
KeyLists == UNION {[1..n -> ReadKeys] : n \in 0..MaxKeys}

\* the updates mappings: up to one entry for each plain attribute
UpdateMaps ==
    {u \in UNION {[1..n -> NonKeyAttrs \X (NameVals \cup StatusVals)] :
                     n \in 0..Cardinality(NonKeyAttrs)} :
        \A i, j \in DOMAIN u : u[i][1] = u[j][1] => i = j}

AllQueryArgs ==
    {QueryArgs(h, rc, fc, lim, fwd, flag, cr) :
        h \in QueryHashArgs, rc \in RangeConds, fc \in FilterConds,
        lim \in Limits, fwd \in BOOLEAN, flag \in BOOLEAN, cr \in BOOLEAN}

\* the stored customers differ in their keys and in their status
ReadItems == {i \in Items : i["name"] = "User 1"}

InitRead == Start(Tables(ReadItems), MaxOps - 1)

NextRead ==
    \/ \E a \in AllQueryArgs : Query(Caller, a)
    \/ \E i \in IndexArgs, a \in AllQueryArgs : QueryIndex(Caller, i, a)
    \/ \E i \in FlexIndexArgs, a \in AllQueryArgs : FlexibleQuery(Caller, i, a)
    \/ \E a \in AllScanArgs : Scan(Caller, a)
    \/ \E a \in AllScanPaginatedArgs : ScanPaginated(Caller, a)
    \/ \E keys \in KeyLists, cr \in BOOLEAN : BatchGet(Caller, keys, cr)
    \/ \E u \in UpdateMaps : BuildActions(Caller, u)

SpecRead == InitRead /\ [][NextRead]_vars

TypeOK ==
    /\ table \in Tables(Items)
    /\ nops \in 0..MaxOps

(***************************************************************************)
(* extract_keys_metadata (src/models/extract_keys_metadata.py)             *)
(*                                                                         *)
(* The function reads the declaration of an entity type through            *)
(* _get_attributes(), _indexes, _local_indexes and, for each index,        *)
(* .attributes.  PynamoDB registers every index of a model, global or      *)
(* local, in _indexes and keeps the attributes of an index under its Meta; *)
(* a type exposes _local_indexes, and an index exposes .attributes, only   *)
(* where the declaration adds them itself.                                 *)
(***************************************************************************)
\* attributes in one declaration
MaxAttrs == 2

\* the attribute declarations over the names N, in declaration order;
\* attribute names are not empty, and no two attributes share a name
AttrListsOver(N) ==
    {l \in UNION {[1..n -> [attr_name : N, is_hash_key : BOOLEAN,
                            is_range_key : BOOLEAN]] : n \in 0..MaxAttrs} :
        \A i, j \in DOMAIN l : l[i].attr_name = l[j].attr_name => i = j}

\* the attributes a declaration is drawn from: the keys of CustomerModel and
\* one plain attribute, which is also the hash key of its status index
DeclAttrs == KeyAttrs \cup {"status"}

IndexDecls ==
    {[name |-> n, has_attributes |-> TRUE, attributes |-> l] :
        n \in Indexes, l \in AttrListsOver({"status"})}
    \cup {[name |-> n, has_attributes |-> FALSE, attributes |-> <<>>] :
            n \in Indexes}

IndexMaps == {<<>>} \cup {<<d>> : d \in IndexDecls}

ModelDecls ==
    {m \in [attributes : AttrListsOver(DeclAttrs), indexes : IndexMaps,
            has_local_indexes : BOOLEAN, local_indexes : IndexMaps] :
        ~m.has_local_indexes => m.local_indexes = <<>>}

get_key(attr) == attr.attr_name

\* the loop over the attributes: a later key attribute replaces an earlier
RECURSIVE ScanKeys(_, _, _)
ScanKeys(attributes, hash_key, range_key) ==
    IF attributes = <<>>
    THEN [hash_key |-> hash_key, range_key |-> range_key]
    ELSE LET attr == Head(attributes)
         IN IF attr.is_hash_key
            THEN ScanKeys(Tail(attributes), get_key(attr), range_key)
            ELSE IF attr.is_range_key
                 THEN ScanKeys(Tail(attributes), hash_key, get_key(attr))
                 ELSE ScanKeys(Tail(attributes), hash_key, range_key)

IndexKeyMetadata(index) ==
    LET k == ScanKeys(index.attributes, None, None)
    IN [name |-> index.name, hash_key |-> k.hash_key,
        range_key |-> k.range_key]

NoMeta == [is_none |-> TRUE]

extract_keys_metadata(model_cls) ==
    LET k == ScanKeys(model_cls.attributes, None, None)
        Hidden(indexes) == \E i \in DOMAIN indexes : ~indexes[i].has_attributes
    IN IF Falsy(k.hash_key)
       THEN [outcome |-> "ValueError", value |-> NoMeta]
       ELSE IF \/ Hidden(model_cls.indexes)
               \/ ~model_cls.has_local_indexes
               \/ Hidden(model_cls.local_indexes)
            THEN [outcome |-> "AttributeError", value |-> NoMeta]
            ELSE [outcome |-> "ok",
                  value |-> [hash_key |-> k.hash_key,
                             range_key |-> k.range_key,
                             gsis |-> [i \in DOMAIN model_cls.indexes |->
                                 IndexKeyMetadata(model_cls.indexes[i])],
                             lsis |-> [i \in DOMAIN model_cls.local_indexes |->
                                 IndexKeyMetadata(model_cls.local_indexes[i])]]]

ExtractKeysMetadata(c, model_cls) ==
    /\ Begin(c)
    /\ LET r == extract_keys_metadata(model_cls)
       IN Return(c, "extract_keys_metadata", model_cls, NoNames, r.outcome,
                 r.value, NoEntity, <<>>, {})
    /\ UNCHANGED <<table, writers>>

\* one extraction per behaviour, over every declaration; no table is read
InitMeta == Start({{}}, MaxOps - 1)

NextMeta == \E m \in ModelDecls : ExtractKeysMetadata(Caller, m)

SpecMeta == InitMeta /\ [][NextMeta]_vars

(***************************************************************************)
(* SpecFrame: one call of any operation, with any arguments, against any   *)
(* table.                                                                  *)
(***************************************************************************)
InitFrame == Start(Tables(SpecItems), MaxOps - 1)

NextFrame == NextSeq \/ NextRead

SpecFrame == InitFrame /\ [][NextFrame]_vars

(***************************************************************************)
(* Properties                                                              *)
(***************************************************************************)
Returned(op) == last.client # 0 /\ last.op = op
Succeeded(op) == Returned(op) /\ last.outcome = "ok"

\* C1: inserting a valid entity e into any table succeeds, returns e and
\* leaves e stored at its key in place of whatever was stored there, every
\* other item untouched; a get by e's hash and range key right after the
\* insert returns e.
RoundTrip ==
    [][/\ \A e \in SpecItems :
            Insert(Caller, e) =>
                /\ last'.outcome = "ok" /\ last'.value = e
                /\ Stored(table', KeyOf(e)) = e
                /\ \A i \in table : KeyOf(i) # KeyOf(e) => i \in table'
                /\ \A i \in table' : i = e \/ i \in table
       /\ (Succeeded("insert") /\ Get(Caller, last.key[1], last.key[2])) =>
                /\ last'.outcome = "ok"
                /\ last'.value = last.value]_vars

\* an insert has replaced a different item stored at the same key
RoundTripWitness ==
    /\ Succeeded("insert")
    /\ last.prior # NoEntity
    /\ last.prior # last.value
    /\ Stored(table, last.key) = last.value

\* C2: when the write-back of an update happens with no write by anyone else
\* at its key since the update read the item, the item stored afterwards
\* has the instance's value for every non-key attribute the instance
\* carries and the value stored before for every other attribute.
UpdateMerge ==
    [][\A c \in Clients :
         (UpdateWrite(c) /\ writers[c] = {}) =>
            LET k == KeyOf(inst[c])
                before == Stored(table, k)
                after == Stored(table', k)
            IN /\ before # NoEntity
               /\ after # NoEntity
               /\ \A a \in Attrs :
                     after[a] = IF a \in DOMAIN inst[c] /\ a \in NonKeyAttrs
                                THEN inst[c][a]
                                ELSE before[a]]_vars

\* an update that carried the name alone changed the name and left the
\* status as it was stored
UpdateMergeWitness ==
    /\ Succeeded("update")
    /\ last.raced = {}
    /\ last.arg.attrs \cap NonKeyAttrs = {"name"}
    /\ last.value["name"] # last.prior["name"]
    /\ Stored(table, last.key)["status"] = last.prior["status"]

\* C3: an update of an instance at whose key nothing is stored raises
\* DoesNotExist at its read, writes nothing (the table is as before, no put
\* is issued) and is over.
UpdateMissing ==
    [][\A c \in Clients, e \in ConcInstances :
         (UpdateGet(c, e, RightNames, FALSE) /\ Stored(table, KeyOf(e)) = NoEntity)
            => /\ last'.client = c
               /\ last'.outcome = "DoesNotExist"
               /\ last'.calls = <<Call("get_item", FALSE)>>
               /\ pc'[c] = "idle"
               /\ table' = table]_vars

\* an update found nothing stored at its key
UpdateMissingWitness ==
    /\ Returned("update")
    /\ last.outcome = "DoesNotExist"
    /\ Stored(table, last.key) = NoEntity

\* C4: the write-back of an update writes an item with exactly the key of
\* the item the update fetched, whatever key the instance has; the items at
\* every other key are untouched and the keys in the table are the same
\* after the call as before.
UpdateKeepsKeys ==
    [][UpdateWrite(Caller) =>
         LET fetched == existing[Caller]
             written == last'.value
         IN /\ KeyOf(written) = KeyOf(fetched)
            /\ Stored(table', KeyOf(fetched)) = written
            /\ \A i \in table : KeyOf(i) # KeyOf(fetched) => i \in table'
            /\ {KeyOf(i) : i \in table'} = {KeyOf(i) : i \in table}]_vars

\* an update whose instance has another key than the item it fetched has
\* changed that item
UpdateKeepsKeysWitness ==
    /\ Succeeded("update")
    /\ last.arg.key # KeyOf(last.value)
    /\ last.value # last.prior
    /\ Stored(table, KeyOf(last.prior)) = last.value

\* C5: an upsert during which nobody else writes at its key leaves the table
\* and returns the result of insert when nothing is stored at the key, and
\* of update when an item is; no upsert raises DoesNotExist.
UpsertTotality ==
    [][/\ \A c \in Clients :
            ((UpsertInsert(c) \/ UpsertUpdateWrite(c)) /\ writers[c] = {}) =>
               LET e == inst[c]
                   cur == Stored(table, KeyOf(e))
                   ins == insert(table, e)
               IN IF cur = NoEntity
                  THEN /\ table' = ins.table
                       /\ last'.outcome = ins.outcome
                       /\ last'.value = ins.value
                  ELSE /\ table' = PutItem(table, Merge(cur, e))
                       /\ last'.outcome = "ok"
                       /\ last'.value = Merge(cur, e)
       /\ (last'.client # 0 /\ last'.op = "upsert") =>
               last'.outcome # "DoesNotExist"]_vars

\* an undisturbed upsert found an item and updated it
UpsertTotalityWitness ==
    /\ Succeeded("upsert")
    /\ last.raced = {}
    /\ last.prior # NoEntity
    /\ last.value # last.prior
    /\ Len(last.calls) = 3

\* the item upsert's lookup found is gone when the delegated update reads
UpsertRaced(c) ==
    /\ pc[c] = "upsert_update_get"
    /\ Stored(table, KeyArg(inst[c], keynames[c])) = NoEntity

\* C6, as stated: when the item upsert's lookup found has been deleted
\* before the delegated update fetches it, the upsert returns to its caller
\* with DoesNotExist.
UpsertRaceReported ==
    [][\A c \in Clients :
         (UpsertRaced(c) /\ UpsertUpdateGet(c)) =>
            /\ last'.client = c
            /\ last'.op = "upsert"
            /\ last'.outcome = "DoesNotExist"]_vars

\* C6, amended: when the item upsert's lookup found has been deleted before
\* the delegated update fetches it, the DoesNotExist of the delegated update
\* is caught by upsert, which writes nothing at that step and goes on to
\* insert the instance; the caller gets what insert gives: the instance, or
\* the ValueError of an instance that lacks an attribute.
UpsertRaceInserts ==
    [][\A c \in Clients :
         /\ (UpsertRaced(c) /\ UpsertUpdateGet(c)) =>
               /\ pc'[c] = "upsert_insert"
               /\ last' = NoLast
               /\ inst'[c] = inst[c]
               /\ table' = table
         /\ (Len(calls[c]) = 2 /\ UpsertInsert(c)) =>
               LET ins == insert(table, inst[c])
               IN /\ last'.client = c
                  /\ last'.outcome = ins.outcome
                  /\ last'.outcome \in {"ok", "ValueError"}
                  /\ last'.value = ins.value
                  /\ table' = ins.table]_vars

\* an upsert whose lookup found the item, and which a delete raced, ended
\* in insert's ValueError
UpsertRaceInsertsWitness ==
    /\ Returned("upsert")
    /\ last.outcome = "ValueError"
    /\ Len(last.calls) = 2
    /\ \E w \in last.raced : w.op = "delete"

\* C7: the write-back of an update succeeds whatever was written at its key
\* since it read: the item stored afterwards has the instance's value for
\* the non-key attributes the instance carries and, for every other
\* attribute, the value the update read, not the value stored at the time
\* of the write-back.
LostUpdate ==
    [][\A c \in Clients :
         (UpdateWrite(c) /\ writers[c] # {}) =>
            LET after == Stored(table', KeyOf(existing[c]))
            IN /\ last'.client = c
               /\ last'.outcome = "ok"
               /\ after # NoEntity
               /\ \A a \in Attrs :
                     after[a] = IF a \in DOMAIN inst[c] /\ a \in NonKeyAttrs
                                THEN inst[c][a]
                                ELSE existing[c][a]]_vars

\* an update and a writer that raced it have both succeeded, and a value
\* the other writer stored, of an attribute the update does not carry, is
\* not in the item the update left
LostUpdateWitness ==
    /\ Succeeded("update")
    /\ \E w \in last.raced : w.op \in {"insert", "update", "upsert"}
    /\ last.prior # NoEntity
    /\ \E a \in NonKeyAttrs \ last.arg.attrs : last.prior[a] # last.value[a]
    /\ Stored(table, last.key) = last.value

\* client c writes back its update right after another client's update of
\* the same item returned, which wrote after c had read, and the two
\* instances carry disjoint non-key attributes
SecondOfTwo(c) ==
    /\ Succeeded("update")
    /\ last.client # c
    /\ pc[c] = "update_save"
    /\ last.key = KeyOf(existing[c])
    /\ \E w \in writers[c] : w.client = last.client /\ w.op = "update"
    /\ last.arg.attrs \cap DOMAIN inst[c] \cap NonKeyAttrs = {}
    /\ last.arg.attrs \cap NonKeyAttrs # {}
    /\ DOMAIN inst[c] \cap NonKeyAttrs # {}

\* C8, as stated: when two updates of the same item interleave, both
\* reading before either writes, and their instances carry disjoint non-key
\* attributes, the item stored after both holds each caller's value for the
\* attributes that caller's instance carries.
PerAttributeWins ==
    [][\A c \in Clients :
         (SecondOfTwo(c) /\ UpdateWrite(c)) =>
            LET after == Stored(table', KeyOf(existing[c]))
            IN /\ \A a \in last.arg.attrs \cap NonKeyAttrs :
                     after[a] = last.value[a]
               /\ \A a \in DOMAIN inst[c] \cap NonKeyAttrs :
                     after[a] = inst[c][a]]_vars

\* C8, amended: the last writer wins the whole item: the item stored after
\* both holds the second writer's values for the attributes its instance
\* carries and, for the attributes the first writer's instance carries, the
\* values the second writer read before the first wrote.
WholeItemWins ==
    [][\A c \in Clients :
         (SecondOfTwo(c) /\ UpdateWrite(c)) =>
            LET after == Stored(table', KeyOf(existing[c]))
            IN /\ \A a \in last.arg.attrs \cap NonKeyAttrs :
                     after[a] = existing[c][a]
               /\ \A a \in DOMAIN inst[c] \cap NonKeyAttrs :
                     after[a] = inst[c][a]]_vars

\* the second of two interleaved updates with disjoint attributes has
\* written, and a value the first had stored is gone
WholeItemWinsWitness ==
    /\ Succeeded("update")
    /\ last.prior # NoEntity
    /\ \E w \in last.raced :
          /\ w.op = "update"
          /\ w.attrs \cap last.arg.attrs \cap NonKeyAttrs = {}
          /\ last.arg.attrs \cap NonKeyAttrs # {}
          /\ \E a \in w.attrs \cap NonKeyAttrs :
                Stored(table, last.key)[a] # last.prior[a]

\* C9: a delete by hash and range key succeeds whether or not an item is
\* stored at the key; after it no item exists at the key, and a delete that
\* follows a delete of the same key leaves the table as it found it.
IdempotentDelete ==
    [][\A k \in SpecKeys :
         Delete(Caller, k[1], k[2]) =>
            /\ last'.outcome = "ok"
            /\ exists(table', k[1], k[2]).value = FALSE
            /\ \A i \in table : KeyOf(i) # k => i \in table'
            /\ (Succeeded("delete") /\ last.key = k) => table' = table]_vars

\* a delete of a key at which nothing was stored has succeeded
IdempotentDeleteWitness ==
    /\ Succeeded("delete")
    /\ last.prior = NoEntity
    /\ Stored(table, last.key) = NoEntity

Elements(q) == {q[n] : n \in 1..Len(q)}
Capped(limit, n) == IF limit = NoLimit \/ n <= limit THEN n ELSE limit

\* C11: a query that is given a hash_key_value issues one partition query
\* on the table, whatever use_scan_if_missing_hash is, and returns stored
\* items whose hash key is that value and that satisfy the range and filter
\* conditions given, each once: all of them, or limit of them when there
\* are more.
PartitionQuery ==
    (Returned("query") /\ last.arg.hash_key_value # None) =>
        LET a == last.arg
            hit == {i \in table : /\ i[hash_key_attr] = a.hash_key_value
                                   /\ Matches(a.range_key_condition, i)
                                   /\ Matches(a.filter_condition, i)}
        IN /\ last.outcome = "ok"
           /\ Len(last.calls) = 1
           /\ last.calls[1].api = "query"
           /\ last.calls[1].index_name = None
           /\ Elements(last.value) \subseteq hit
           /\ Cardinality(Elements(last.value)) = Len(last.value)
           /\ Len(last.value) = Capped(a.limit, Cardinality(hit))

\* a query given a hash key, the flag and a range condition has returned
\* part of the partition
PartitionQueryWitness ==
    /\ Succeeded("query")
    /\ last.arg.hash_key_value # None
    /\ last.arg.use_scan_if_missing_hash
    /\ last.arg.range_key_condition # NoCond
    /\ Len(last.value) = 1
    /\ \E i \in table : /\ i[hash_key_attr] = last.arg.hash_key_value
                        /\ i \notin Elements(last.value)

\* the filter the scan fallback is to use
FullFilter(a) ==
    IF a.filter_condition = NoCond THEN a.range_key_condition
    ELSE And(a.range_key_condition, a.filter_condition)

\* C12: a query that is given no hash_key_value, the flag and a
\* range_key_condition returns what scan returns when called with the
\* filter range_key_condition AND filter_condition, or with
\* range_key_condition alone when no filter_condition is given, and the same
\* limit and consistent_read.
ScanFallback ==
    (/\ Returned("query")
     /\ last.arg.hash_key_value = None
     /\ last.arg.use_scan_if_missing_hash
     /\ last.arg.range_key_condition # NoCond)
        => LET a == last.arg
               s == scan(ScanArgs(FullFilter(a), a.limit, a.consistent_read))
           IN /\ last.outcome = "ok"
              /\ last.calls = <<s.call>>
              /\ last.value = Storage(table, s.call).value

\* C13: query_index decides as query does on the same hash_key_value,
\* conditions and flag: it raises what query raises, issuing no storage
\* call, and otherwise issues the one storage call query issues, a
\* partition query or a scan with the same parameters, but on the index it
\* was given.
SameDispatch ==
    Returned("query_index") =>
        LET q == query(last.arg)
        IN IF q.outcome # "ok"
           THEN last.outcome = q.outcome /\ last.calls = <<>>
           ELSE /\ last.outcome \in {"ok", "KeyError"}
                /\ last.calls =
                      <<[q.call EXCEPT !.index_name = last.arg.index_name]>>

\* a query_index given the flag and a range condition alone has scanned
\* the index it was given
SameDispatchWitness ==
    /\ Succeeded("query_index")
    /\ last.arg.hash_key_value = None
    /\ last.arg.index_name = "status-index"
    /\ Len(last.calls) = 1
    /\ last.calls[1].api = "scan"
    /\ last.calls[1].index_name = "status-index"
    /\ Len(last.value) >= 1

\* the items of the table whose key is in a list of keys
StoredAt(keys) == {i \in table : \E n \in 1..Len(keys) : KeyOf(i) = keys[n]}
Distinct(keys) == \A m, n \in 1..Len(keys) : m # n => keys[m] # keys[n]

\* C14, as stated: for every list of keys and every table, batch_get
\* returns without error the stored items whose key is in the list, each
\* once, so no more items than keys; the empty list gives the empty result.
BatchGetExact ==
    Returned("batch_get") =>
        /\ last.outcome = "ok"
        /\ Elements(last.value) = StoredAt(last.arg.keys)
        /\ Cardinality(Elements(last.value)) = Len(last.value)
        /\ Len(last.value) <= Len(last.arg.keys)
        /\ last.arg.keys = <<>> => last.value = <<>>

\* C14, for the lists it holds of: for every list of keys that names no key
\* twice and every table, batch_get returns without error the stored items whose key is in
\* the list, each once, so no more items than keys; the empty list gives
\* the empty result and issues no storage call; a list that names a key
\* twice is rejected by storage and the call raises.
BatchGetDistinct ==
    Returned("batch_get") =>
        IF Distinct(last.arg.keys)
        THEN /\ last.outcome = "ok"
             /\ Elements(last.value) = StoredAt(last.arg.keys)
             /\ Cardinality(Elements(last.value)) = Len(last.value)
             /\ Len(last.value) <= Len(last.arg.keys)
             /\ last.arg.keys = <<>> => last.value = <<>> /\ last.calls = <<>>
        ELSE /\ last.outcome = "GetError"
             /\ last.value = <<>>

\* C15: a get whose hash_key is None or the empty string returns None
\* without raising and without a storage call, whatever its range_key and
\* whatever is stored.
GetGuard ==
    (Returned("get") /\ last.key[1] \in {None, ""}) =>
        /\ last.outcome = "ok"
        /\ last.value = NoEntity
        /\ last.calls = <<>>

\* a get with the empty hash key and a range key has returned None from a
\* table that holds items
GetGuardWitness ==
    /\ Returned("get")
    /\ last.key[1] = ""
    /\ last.key[2] # None
    /\ table # {}
    /\ last.value = NoEntity
    /\ last.calls = <<>>

\* C16: for every table and every hash_key and range_key, exists ends as
\* get with the same arguments ends, and when they return, exists returns
\* true exactly when get returns an entity, which is exactly when an item
\* is stored at (hash_key, range_key); for a full key both return, get the
\* stored item or None and exists true or false; neither ever raises
\* DoesNotExist.
ExistsIffGet ==
    [][\A h \in HashArgs, r \in RangeArgs :
         /\ Exists(Caller, h, r) =>
               LET g == get(table, h, r)
               IN /\ last'.outcome = g.outcome
                  /\ last'.outcome # "DoesNotExist"
                  /\ last'.calls = g.calls
                  /\ g.outcome = "ok" =>
                        /\ last'.value = (g.value # NoEntity)
                        /\ last'.value = (Stored(table, <<h, r>>) # NoEntity)
                  /\ (h \notin {None, ""} /\ r # None) => last'.outcome = "ok"
         /\ Get(Caller, h, r) =>
               /\ last'.outcome # "DoesNotExist"
               /\ last'.outcome = "ok" => last'.value = Stored(table, <<h, r>>)
               /\ (h \notin {None, ""} /\ r # None) => last'.outcome = "ok"]_vars

\* an exists of a full key at which nothing is stored has asked storage and
\* returned false
ExistsIffGetWitness ==
    /\ Succeeded("exists")
    /\ last.key[1] \notin {None, ""}
    /\ last.key[2] # None
    /\ last.value = FALSE
    /\ Len(last.calls) = 1
    /\ table # {}

\* C17: a scan_paginated consumed to the end yields stored items that
\* satisfy the filter, each once: all N of them, or limit of them when a
\* limit below N is given, whatever page_size >= 1 is; and none of its page
\* fetches carries more than page_size items.
PaginatedCount ==
    Returned("scan_paginated") =>
        LET a == last.arg
            hit == {i \in table : Matches(a.filter_condition, i)}
            fetches == last.calls[1].fetches
        IN /\ last.outcome = "ok"
           /\ Elements(last.value) \subseteq hit
           /\ Cardinality(Elements(last.value)) = Len(last.value)
           /\ Len(last.value) = Capped(a.limit, Cardinality(hit))
           /\ \A n \in 1..Len(fetches) : fetches[n] <= a.page_size

\* a scan_paginated with pages of two and a limit of three has yielded
\* three of four matching items, over more than one page
PaginatedCountWitness ==
    /\ Succeeded("scan_paginated")
    /\ last.arg.page_size = 2
    /\ last.arg.limit = 3
    /\ Len(last.value) = 3
    /\ Cardinality({i \in table : Matches(last.arg.filter_condition, i)}) = 4
    /\ Len(last.calls[1].fetches) = 2

\* what one undisturbed upsert of e, given the key attribute names, makes of
\* table t: the lookup, then the delegated update or the insert
UpsertOnce(t, e, names) ==
    LET k == KeyArg(e, names)
        g == ModelGet(t, k[1], k[2])
    IN CASE g.outcome = "ok" ->
               [outcome |-> "ok", table |-> PutItem(t, Merge(g.item, e))]
         [] g.outcome = "DoesNotExist" ->
               [outcome |-> insert(t, e).outcome, table |-> insert(t, e).table]
         [] OTHER -> [outcome |-> g.outcome, table |-> t]

\* C18: with one caller, every upsert that returns leaves the table that
\* UpsertOnce gives, and an upsert of the same instance, with the same key
\* attribute names, on the table it left succeeds and leaves that table as
\* it is.
UpsertIdempotent ==
    [][(UpsertInsert(Caller) \/ UpsertUpdateWrite(Caller)) =>
          LET e == inst[Caller]
              names == keynames[Caller]
              once == UpsertOnce(table, e, names)
              again == UpsertOnce(table', e, names)
          IN /\ last'.outcome = once.outcome
             /\ table' = once.table
             /\ last'.outcome = "ok" =>
                   /\ again.outcome = "ok"
                   /\ again.table = table']_vars

\* a second upsert found the item as an upsert had left it and left it so
UpsertIdempotentWitness ==
    /\ Succeeded("upsert")
    /\ nops > 1
    /\ Len(last.calls) = 3
    /\ last.prior # NoEntity
    /\ last.value = last.prior
    /\ last.arg.attrs \cap NonKeyAttrs # {}

DeclaresHash(attributes) == \E i \in DOMAIN attributes : attributes[i].is_hash_key
DeclaresRange(attributes) == \E i \in DOMAIN attributes : attributes[i].is_range_key

\* every index descriptor of the record stands for the declared index of
\* its position, and carries no hash key where the index declares none
Descriptors(metas, indexes) ==
    /\ Len(metas) = Len(indexes)
    /\ \A i \in DOMAIN indexes :
          /\ metas[i].name = indexes[i].name
          /\ ~DeclaresHash(indexes[i].attributes) => metas[i].hash_key = None

\* a step in which extract_keys_metadata returns
Extracted == nops' # nops /\ last'.op = "extract_keys_metadata"

\* C19: key-metadata extraction fails with the missing-hash-key error
\* exactly when the entity type declares no hash-key attribute, and fails in
\* no other way; when it returns, hash_key is populated, range_key is absent
\* iff no range-key attribute is declared, and an index that declares no
\* hash key has a descriptor whose hash_key is absent.
KeyMetadataContract ==
    [][Extracted =>
       LET m == last'.arg IN
          /\ last'.outcome \in {"ok", "ValueError"}
          /\ last'.outcome = "ValueError" <=> ~DeclaresHash(m.attributes)
          /\ last'.outcome = "ok" =>
                /\ ~Falsy(last'.value.hash_key)
                /\ last'.value.range_key = None <=> ~DeclaresRange(m.attributes)
                /\ Descriptors(last'.value.gsis, m.indexes)
                /\ Descriptors(last'.value.lsis, m.local_indexes)]_vars

\* the declaration adds every accessor the extraction reads
Exposed(m) ==
    /\ m.has_local_indexes
    /\ \A i \in DOMAIN m.indexes : m.indexes[i].has_attributes
    /\ \A i \in DOMAIN m.local_indexes : m.local_indexes[i].has_attributes

\* C19, what the extraction does: the missing-hash-key error exactly when
\* no hash-key attribute is declared; otherwise an AttributeError unless the
\* declaration exposes every accessor, and then a record whose hash_key is
\* populated, whose range_key is absent iff no attribute is a range key
\* without being a hash key, and whose index descriptors carry no hash key
\* where the index declares none.
KeyMetadataOutcome ==
    [][Extracted =>
       LET m == last'.arg IN
          /\ last'.outcome = "ValueError" <=> ~DeclaresHash(m.attributes)
          /\ last'.outcome = "AttributeError" <=>
                DeclaresHash(m.attributes) /\ ~Exposed(m)
          /\ last'.outcome = "ok" <=> DeclaresHash(m.attributes) /\ Exposed(m)
          /\ last'.outcome = "ok" =>
                /\ ~Falsy(last'.value.hash_key)
                /\ last'.value.range_key = None <=>
                      ~\E i \in DOMAIN m.attributes :
                          /\ m.attributes[i].is_range_key
                          /\ ~m.attributes[i].is_hash_key
                /\ Descriptors(last'.value.gsis, m.indexes)
                /\ Descriptors(last'.value.lsis, m.local_indexes)]_vars

\* a step in which build_actions returns
Built == nops' # nops /\ last'.op = "build_actions"

\* C20: build_actions returns one set-action per entry of updates, in the
\* order of the mapping, each with the entry's attribute name and its new
\* value; the empty mapping gives the empty sequence; no storage call is made
\* and the table is unchanged.
BuildActionsExact ==
    [][Built =>
       LET u == last'.arg IN
          /\ last'.outcome = "ok"
          /\ Len(last'.value) = Len(u)
          /\ \A i \in DOMAIN u :
                /\ last'.value[i].action = "SET"
                /\ last'.value[i].path = <<u[i][1]>>
                /\ last'.value[i].value = u[i][2]
          /\ u = <<>> => last'.value = <<>>
          /\ last'.calls = <<>>
          /\ table' = table]_vars

BuildActionsExactWitness ==
    /\ Succeeded("build_actions")
    /\ Len(last.arg) = 2 /\ Len(last.value) = 2
    /\ last.value[1].path = <<"name">> /\ last.value[2].path = <<"status">>
    /\ table # {}

\* C21: an update never brings an item into existence: when nothing is
\* stored at the key at the moment of the write-back, because a concurrent
\* delete removed the item the update had read, nothing is stored at the key
\* after the write-back either.
NoResurrection ==
    [][\A c \in Clients :
         (UpdateWrite(c) /\ Stored(table, KeyOf(existing[c])) = NoEntity) =>
            Stored(table', KeyOf(existing[c])) = NoEntity]_vars

\* C21, what the write-back does: it puts the item the update read, merged
\* with the instance, whatever is stored at the key by then.
WriteBackPuts ==
    [][\A c \in Clients :
         UpdateWrite(c) =>
            Stored(table', KeyOf(existing[c])) = Merge(existing[c], inst[c])]_vars

\* C22: when upsert is called with consistent_read true, every get_item
\* issued for the call, the existence lookup and the fetch of the delegated
\* update, is a consistent read.
UpsertReadsConsistent ==
    [][(UpsertUpdateGet(Caller) /\ calls[Caller][1].consistent_read) =>
          LET log == IF last'.client # 0 THEN last'.calls ELSE calls'[Caller]
          IN \A i \in DOMAIN log :
                log[i].api = "get_item" => log[i].consistent_read]_vars

\* C22, what upsert does: the existence lookup carries the consistent_read
\* it was given, the fetch of the delegated update carries update's default.
UpsertReadsDefault ==
    [][UpsertUpdateGet(Caller) =>
          LET log == IF last'.client # 0 THEN last'.calls ELSE calls'[Caller]
          IN /\ Len(log) = 2
             /\ log[1] = calls[Caller][1]
             /\ log[2] = Call("get_item", FALSE)]_vars

\* what a call that decided d returns, and the storage calls it issued
Answer(d) ==
    IF d.outcome # "ok"
    THEN [outcome |-> d.outcome, calls |-> <<>>, value |-> <<>>]
    ELSE [outcome |-> Storage(table, d.call).outcome, calls |-> <<d.call>>,
          value |-> Storage(table, d.call).value]

\* C23: flexible_query does what the dedicated operation does on the same
\* hash_key_value, conditions, limit, direction, flag and consistent_read:
\* without an index_name what query does, with an index_name what
\* query_index does on that index.  It raises the same exception with no
\* storage call, or issues the same single storage call with the same
\* parameters and returns the same items.
FlexibleAsDedicated ==
    Returned("flexible_query") =>
        LET a == last.arg
            d == IF Falsy(a.index_name) THEN query(a)
                 ELSE query_index(a.index_name, a)
        IN /\ last.outcome = Answer(d).outcome
           /\ last.calls = Answer(d).calls
           /\ last.value = Answer(d).value

\* a flexible_query given an index, the flag and a range condition alone
\* has scanned that index
FlexibleAsDedicatedWitness ==
    /\ Succeeded("flexible_query")
    /\ last.arg.index_name = "status-index"
    /\ last.arg.hash_key_value = None
    /\ Len(last.calls) = 1
    /\ last.calls[1].api = "scan"
    /\ last.calls[1].index_name = "status-index"
    /\ Len(last.value) >= 1

\* the keys at which a step changes what is stored
Changed == {k \in ReadKeys : Stored(table', k) # Stored(table, k)}

WriteOps == {"insert", "update", "upsert", "delete"}

\* C24: the table changes only in a step in which insert, update, upsert or
\* delete returns, and then at one key at most: the key of the instance for
\* insert and for the inserting upsert, the key arguments for delete, the key
\* read off the instance by the given key attribute names for update and
\* for the updating upsert, which is the key of the instance when the names
\* are those of the entity's keys.  Items stored under any other key stay as
\* they are, and no step of get, exists, query, query_index, flexible_query,
\* scan, scan_paginated, batch_get or build_actions changes the table.
Frame ==
    [][/\ table' # table => Changed # {}
       /\ Changed # {} =>
             /\ last'.client # 0
             /\ last'.op \in WriteOps
             /\ LET c == last'.client
                IN CASE last'.op = "insert" -> Changed = {last'.arg.key}
                     [] last'.op = "delete" -> Changed = {last'.key}
                     [] last'.op = "update" ->
                           /\ Changed = {KeyArg(inst[c], keynames[c])}
                           /\ keynames[c] = RightNames =>
                                 Changed = {KeyOf(inst[c])}
                     [] last'.op = "upsert" ->
                           /\ Changed = {IF pc[c] = "upsert_insert"
                                         THEN KeyOf(inst[c])
                                         ELSE KeyArg(inst[c], keynames[c])}
                           /\ keynames[c] = RightNames =>
                                 Changed = {KeyOf(inst[c])}
       /\ (last'.client # 0 /\ last'.op \notin WriteOps) => table' = table]_vars

\* an update has changed the item at its key in a table that holds an item
\* under another key
FrameWitness ==
    /\ Succeeded("update")
    /\ last.value # last.prior
    /\ \E i \in table : KeyOf(i) # last.key
====
